---- MODULE Spec2Model ----
(***************************************************************************)
(* Model of the filesystem MCP server: the sandbox path validator          *)
(* (config.ts: resolveAndValidatePath), the tool handlers (tools.ts) and   *)
(* the sequential edit loop of edit_file.                                  *)
(*                                                                         *)
(* A JavaScript string is a sequence of one-character strings, so that     *)
(* startsWith, includes, replaceAll, path.resolve, path.relative and       *)
(* path.dirname are computed character by character as node computes them. *)
(***************************************************************************)
EXTENDS Integers, Sequences, FiniteSets, TLC

VARIABLES
    fs,       \* storage: resolved path -> [type: "dir"] or [type: "file", content]
    calls,    \* storage calls (fn, path) issued by the last handler step
    result,   \* the response of the last completed handler
    rmf,      \* the read_multiple_files request in flight
    ed,       \* the edit_file request in flight (edit loop position and locals)
    pv        \* the validator call under test: input and outcome

vars == <<fs, calls, result, rmf, ed, pv>>

-----------------------------------------------------------------------------
(* Strings                                                                 *)

SLASH == "/"
DOT == "."

\* String.prototype.startsWith
StartsWith(s, p) == Len(s) >= Len(p) /\ SubSeq(s, 1, Len(p)) = p

\* String.prototype.includes (the empty string is included in every string)
Includes(s, p) ==
    \E i \in 1..(Len(s) - Len(p) + 1) : SubSeq(s, i, i + Len(p) - 1) = p

\* replaceAll with a non-empty pattern: leftmost-first, non-overlapping,
\* the replacement is not rescanned
RECURSIVE ReplaceScan(_, _, _)
ReplaceScan(s, old, new) ==
    IF s = <<>> THEN <<>>
    ELSE IF StartsWith(s, old)
         THEN new \o ReplaceScan(SubSeq(s, Len(old) + 1, Len(s)), old, new)
         ELSE <<Head(s)>> \o ReplaceScan(Tail(s), old, new)

\* replaceAll with the empty pattern: the replacement is inserted before every
\* character and after the last one
RECURSIVE ReplaceEmpty(_, _)
ReplaceEmpty(s, new) ==
    IF s = <<>> THEN new
    ELSE new \o <<Head(s)>> \o ReplaceEmpty(Tail(s), new)

\* String.prototype.replaceAll(old, new) with string arguments
ReplaceAll(s, old, new) ==
    IF old = <<>> THEN ReplaceEmpty(s, new) ELSE ReplaceScan(s, old, new)

\* !userPath.trim(): the string is empty or holds white space only
IsBlank(s) == \A i \in 1..Len(s) : s[i] = " "

-----------------------------------------------------------------------------
(* node:path (posix)                                                       *)

\* the segments of a string between its separators (empty segments kept)
RECURSIVE SplitAcc(_, _, _)
SplitAcc(s, cur, acc) ==
    IF s = <<>> THEN Append(acc, cur)
    ELSE IF Head(s) = SLASH
         THEN SplitAcc(Tail(s), <<>>, Append(acc, cur))
         ELSE SplitAcc(Tail(s), Append(cur, Head(s)), acc)

Split(s) == SplitAcc(s, <<>>, <<>>)

\* normalizeString(path, allowAboveRoot = false): '' and '.' are dropped, '..'
\* removes the segment before it, and is dropped at the root
RECURSIVE NormalizeAcc(_, _)
NormalizeAcc(segs, acc) ==
    IF segs = <<>> THEN acc
    ELSE LET g == Head(segs) IN
         IF g = <<>> \/ g = <<DOT>> THEN NormalizeAcc(Tail(segs), acc)
         ELSE IF g = <<DOT, DOT>>
              THEN NormalizeAcc(Tail(segs),
                                IF acc = <<>> THEN acc
                                ELSE SubSeq(acc, 1, Len(acc) - 1))
              ELSE NormalizeAcc(Tail(segs), Append(acc, g))

\* segments joined by the separator
RECURSIVE Join(_)
Join(segs) ==
    IF segs = <<>> THEN <<>>
    ELSE IF Len(segs) = 1 THEN Head(segs)
         ELSE Head(segs) \o <<SLASH>> \o Join(Tail(segs))

\* path.isAbsolute
isAbsolute(p) == Len(p) > 0 /\ p[1] = SLASH

\* the segments of an absolute, normalized path
Segs(p) == NormalizeAcc(Split(p), <<>>)

\* an absolute path from its segments
AbsPath(segs) == <<SLASH>> \o Join(segs)

\* path.resolve(base, p) for an absolute base
resolve(base, p) ==
    IF isAbsolute(p) THEN AbsPath(Segs(p))
    ELSE AbsPath(Segs(base \o <<SLASH>> \o p))

\* length of the longest common prefix of two segment lists
RECURSIVE CommonLen(_, _)
CommonLen(a, b) ==
    IF a = <<>> \/ b = <<>> THEN 0
    ELSE IF Head(a) = Head(b) THEN 1 + CommonLen(Tail(a), Tail(b))
         ELSE 0

\* n parent-directory segments
Ups(n) == [i \in 1..n |-> <<DOT, DOT>>]

\* path.relative(from, to) for absolute paths
relative(from, to) ==
    LET a == Segs(from)
        b == Segs(to)
        c == CommonLen(a, b)
    IN  Join(Ups(Len(a) - c) \o SubSeq(b, c + 1, Len(b)))

\* index of the separator that ends the directory part (dirname's loop from
\* the end of the string down to index 1 (0-based)), or 0 when there is none
RECURSIVE DirnameEnd(_, _, _)
DirnameEnd(p, i, matchedSlash) ==
    IF i < 2 THEN 0
    ELSE IF p[i] = SLASH
         THEN IF ~matchedSlash THEN i ELSE DirnameEnd(p, i - 1, matchedSlash)
         ELSE DirnameEnd(p, i - 1, FALSE)

\* path.dirname
dirname(p) ==
    IF Len(p) = 0 THEN <<DOT>>
    ELSE LET hasRoot == p[1] = SLASH
             end == DirnameEnd(p, Len(p), TRUE)
         IN  IF end = 0 THEN (IF hasRoot THEN <<SLASH>> ELSE <<DOT>>)
             ELSE IF hasRoot /\ end = 2 THEN <<SLASH, SLASH>>
             ELSE SubSeq(p, 1, end - 1)

-----------------------------------------------------------------------------
(* config.ts                                                               *)

projectRoot == <<"/", "h", "o", "m", "e", "/", "p", "r", "o", "j", "e", "c", "t">>

DATA == <<"d", "a", "t", "a">>

ALLOWED_DIRS == { resolve(projectRoot, DATA) }

\* the predicate of ALLOWED_DIRS.some(...)
RelativeAllowed(allowedDir, resolvedPath) ==
    LET rel == relative(allowedDir, resolvedPath)
    IN  ~StartsWith(rel, <<DOT, DOT>>) /\ ~isAbsolute(rel)

\* resolveAndValidatePath: the resolved path, or the error thrown
resolveAndValidatePath(userPath) ==
    IF IsBlank(userPath)
    THEN [ok |-> FALSE, error |-> "Invalid path", path |-> <<>>]
    ELSE LET resolvedPath == resolve(projectRoot, userPath)
             isAllowed == \E d \in ALLOWED_DIRS : RelativeAllowed(d, resolvedPath)
         IN  IF ~isAllowed
             THEN [ok |-> FALSE, error |-> "Access denied", path |-> <<>>]
             ELSE [ok |-> TRUE, error |-> "none", path |-> resolvedPath]

validateSourcePath(sourcePath) == resolveAndValidatePath(sourcePath)

\* true containment: the resolved path is an allowed directory or lies below one
LexicallyInside(p) ==
    \E d \in ALLOWED_DIRS :
        LET a == Segs(d)
            b == Segs(p)
        IN  Len(a) <= Len(b) /\ SubSeq(b, 1, Len(a)) = a

-----------------------------------------------------------------------------
(* node:fs/promises over the modelled storage                              *)

DirNode == [type |-> "dir", content |-> <<>>]
FileNode(c) == [type |-> "file", content |-> c]

\* the storage is keyed by absolute normalized paths: '/' or '/seg/.../seg'
ROOT == <<SLASH>>

\* positions of the separators of a path
Slashes(p) == { i \in 1..Len(p) : p[i] = SLASH }

\* the parent directory of an absolute normalized path ('/' is its own parent)
ParentOf(p) ==
    LET last == CHOOSE i \in Slashes(p) : \A j \in Slashes(p) : j <= i
    IN  IF last = 1 THEN ROOT ELSE SubSeq(p, 1, last - 1)

\* the last segment of an absolute normalized path other than '/'
EntryName(p) ==
    LET last == CHOOSE i \in Slashes(p) : \A j \in Slashes(p) : j <= i
    IN  SubSeq(p, last + 1, Len(p))

\* the path and all its ancestors, the root included
SelfAndAncestors(p) ==
    {ROOT, p} \cup { SubSeq(p, 1, i - 1) : i \in Slashes(p) \ {1} }

IsDir(f, p) == p \in DOMAIN f /\ f[p].type = "dir"
IsFile(f, p) == p \in DOMAIN f /\ f[p].type = "file"

\* q is p or lies below p
Below(p, q) == q = p \/ p = ROOT \/ StartsWith(q, p \o <<SLASH>>)

\* fs.access(p): resolves iff the path exists
access(f, p) == [ok |-> p \in DOMAIN f, code |-> IF p \in DOMAIN f THEN "ok" ELSE "ENOENT"]

\* fs.readFile(p, 'utf-8')
readFile(f, p) ==
    IF p \notin DOMAIN f THEN [ok |-> FALSE, code |-> "ENOENT", content |-> <<>>]
    ELSE IF f[p].type = "dir" THEN [ok |-> FALSE, code |-> "EISDIR", content |-> <<>>]
    ELSE [ok |-> TRUE, code |-> "ok", content |-> f[p].content]

\* a function extended or overwritten at one point
Put(f, p, node) == [q \in DOMAIN f \cup {p} |-> IF q = p THEN node ELSE f[q]]

\* fs.writeFile(p, content, 'utf-8')
writeFile(f, p, c) ==
    IF IsDir(f, p) THEN [ok |-> FALSE, code |-> "EISDIR", fs |-> f]
    ELSE IF IsFile(f, ParentOf(p)) THEN [ok |-> FALSE, code |-> "ENOTDIR", fs |-> f]
    ELSE IF ParentOf(p) \notin DOMAIN f THEN [ok |-> FALSE, code |-> "ENOENT", fs |-> f]
    ELSE [ok |-> TRUE, code |-> "ok", fs |-> Put(f, p, FileNode(c))]

\* fs.mkdir(p, { recursive: true })
mkdir(f, p) ==
    IF IsDir(f, p) THEN [ok |-> TRUE, code |-> "ok", fs |-> f]
    ELSE IF IsFile(f, p) THEN [ok |-> FALSE, code |-> "EEXIST", fs |-> f]
    ELSE IF \E a \in SelfAndAncestors(p) : IsFile(f, a)
         THEN [ok |-> FALSE, code |-> "ENOTDIR", fs |-> f]
    ELSE [ok |-> TRUE, code |-> "ok",
          fs |-> [q \in DOMAIN f \cup SelfAndAncestors(p) |->
                     IF q \in DOMAIN f THEN f[q] ELSE DirNode]]

\* the path q, below src, re-rooted below dst
Reroot(src, dst, q) == dst \o SubSeq(q, Len(src) + 1, Len(q))

\* fs.rename(src, dst)
rename(f, src, dst) ==
    IF src \notin DOMAIN f THEN [ok |-> FALSE, code |-> "ENOENT", fs |-> f]
    ELSE IF IsFile(f, ParentOf(dst)) THEN [ok |-> FALSE, code |-> "ENOTDIR", fs |-> f]
    ELSE IF ParentOf(dst) \notin DOMAIN f THEN [ok |-> FALSE, code |-> "ENOENT", fs |-> f]
    ELSE IF src = dst THEN [ok |-> TRUE, code |-> "ok", fs |-> f]
    ELSE IF IsDir(f, src) /\ Below(src, dst) THEN [ok |-> FALSE, code |-> "EINVAL", fs |-> f]
    ELSE IF IsDir(f, src) /\ IsFile(f, dst) THEN [ok |-> FALSE, code |-> "ENOTDIR", fs |-> f]
    ELSE IF IsFile(f, src) /\ IsDir(f, dst) THEN [ok |-> FALSE, code |-> "EISDIR", fs |-> f]
    ELSE IF IsDir(f, dst) /\ \E q \in DOMAIN f : q # dst /\ Below(dst, q)
         THEN [ok |-> FALSE, code |-> "ENOTEMPTY", fs |-> f]
    ELSE LET moved == { q \in DOMAIN f : Below(src, q) }
             kept == { q \in DOMAIN f : ~Below(src, q) /\ ~Below(dst, q) }
             target == { Reroot(src, dst, q) : q \in moved }
         IN  [ok |-> TRUE, code |-> "ok",
              fs |-> [q \in kept \cup target |->
                         IF q \in kept THEN f[q]
                         ELSE f[CHOOSE m \in moved : Reroot(src, dst, m) = q]]]

\* fs.readdir(p, { withFileTypes: true }): the entries directly below p
readdir(f, p) ==
    IF p \notin DOMAIN f THEN [ok |-> FALSE, code |-> "ENOENT", entries |-> {}]
    ELSE IF f[p].type = "file" THEN [ok |-> FALSE, code |-> "ENOTDIR", entries |-> {}]
    ELSE [ok |-> TRUE, code |-> "ok",
          entries |-> { [name |-> EntryName(q), type |-> f[q].type] :
                          q \in { r \in DOMAIN f : r # ROOT /\ ParentOf(r) = p } }]

\* fs.stat(p)
stat(f, p) ==
    IF p \notin DOMAIN f THEN [ok |-> FALSE, code |-> "ENOENT", type |-> "none", size |-> 0]
    ELSE [ok |-> TRUE, code |-> "ok", type |-> f[p].type, size |-> Len(f[p].content)]

\* a storage call, as recorded in calls
Call(fn, p) == [fn |-> fn, path |-> p]

\* a tool response: isError and the message's kind, with the payload it carries
Resp(op, isError, msg, text, blocks, items) ==
    [op |-> op, isError |-> isError, msg |-> msg, text |-> text,
     blocks |-> blocks, items |-> items]

Ok(op, msg) == Resp(op, FALSE, msg, <<>>, <<>>, {})
Err(op, msg) == Resp(op, TRUE, msg, <<>>, <<>>, {})

NoResult == Ok("none", "none")

-----------------------------------------------------------------------------
(* tools.ts: edit_file                                                     *)

Edit(old, new) == [oldText |-> old, newText |-> new]

\* a line pushed to appliedEditsInfo, by the template it is built from:
\* "Replaced" (Replaced all occurrences of ...), "Note" (... was present
\* initially but removed by prior edits), "Skipped" (Skipped: ... not found)
Info(kind, edit) == [kind |-> kind, oldText |-> edit.oldText]

EditIdle ==
    [pc |-> "idle", userPath |-> <<>>, filePath |-> <<>>, edits |-> <<>>,
     dryRun |-> FALSE, i |-> 0, currentContent |-> <<>>, modifiedContent |-> <<>>,
     changesMade |-> FALSE, appliedEditsInfo |-> <<>>, error |-> "none"]

\* the handler up to the loop: validation, then the read of the file
EditBegin(f, userPath, edits, dryRun) ==
    LET v == resolveAndValidatePath(userPath)
        r == readFile(f, v.path)
    IN  IF ~v.ok
        THEN [EditIdle EXCEPT !.pc = "failed", !.userPath = userPath, !.error = v.error]
        ELSE IF ~r.ok
        THEN [EditIdle EXCEPT !.pc = "failed", !.userPath = userPath,
                              !.filePath = v.path, !.error = r.code]
        ELSE [EditIdle EXCEPT !.pc = "loop", !.userPath = userPath, !.filePath = v.path,
                              !.edits = edits, !.dryRun = dryRun,
                              !.currentContent = r.content,
                              !.modifiedContent = r.content]

\* one iteration of for (const edit of edits)
EditIter(e) ==
    LET edit == e.edits[e.i + 1]
        originalLength == Len(e.modifiedContent)
        modifiedContent == ReplaceAll(e.modifiedContent, edit.oldText, edit.newText)
        cur == e.currentContent
        next == [e EXCEPT !.i = e.i + 1, !.modifiedContent = modifiedContent]
    IN  IF Len(modifiedContent) # originalLength \/ Includes(cur, edit.oldText)
        THEN IF modifiedContent # ReplaceAll(cur, edit.oldText, edit.newText)
             THEN [next EXCEPT !.changesMade = TRUE,
                               !.appliedEditsInfo = Append(@, Info("Replaced", edit))]
             ELSE IF ~Includes(modifiedContent, edit.oldText) /\ Includes(cur, edit.oldText)
             THEN [next EXCEPT !.appliedEditsInfo = Append(@, Info("Note", edit))]
             ELSE IF ~Includes(cur, edit.oldText)
             THEN [next EXCEPT !.appliedEditsInfo = Append(@, Info("Skipped", edit))]
             ELSE next
        ELSE [next EXCEPT !.appliedEditsInfo = Append(@, Info("Skipped", edit))]

\* the whole loop
RECURSIVE EditRun(_)
EditRun(e) ==
    IF e.pc = "loop" /\ e.i < Len(e.edits) THEN EditRun(EditIter(e)) ELSE e

\* the write reached whatever dryRun says
EditWritesIgnoringDryRun(e) == e.changesMade

\* whether the handler reaches fs.writeFile after the loop
EditWrites(e) == ~e.dryRun /\ e.changesMade

\* the handler after the loop: the dry-run answers, the no-change answer, or
\* the write; a failed validation or read answers with its error
EditEnd(f, e) ==
    IF e.pc = "failed"
    THEN [fs |-> f,
          calls |-> IF e.filePath = <<>> THEN {} ELSE {Call("readFile", e.filePath)},
          result |-> Err("edit_file", e.error)]
    ELSE IF ~EditWrites(e)
    THEN [fs |-> f, calls |-> {Call("readFile", e.filePath)},
          result |-> Resp("edit_file", FALSE,
                          IF e.dryRun
                          THEN (IF e.changesMade THEN "Dry run: changes would be applied"
                                ELSE "Dry run: no changes")
                          ELSE "No changes applied",
                          IF e.dryRun /\ e.changesMade THEN e.modifiedContent ELSE <<>>,
                          e.appliedEditsInfo, {})]
    ELSE LET w == writeFile(f, e.filePath, e.modifiedContent)
         IN  [fs |-> w.fs,
              calls |-> {Call("readFile", e.filePath), Call("writeFile", e.filePath)},
              result |-> IF w.ok
                         THEN Resp("edit_file", FALSE, "Successfully edited", <<>>,
                                   e.appliedEditsInfo, {})
                         ELSE Err("edit_file", w.code)]

-----------------------------------------------------------------------------
(* Requests of the server model                                            *)

P_root == DATA
P_a == DATA \o <<"/", "a">>
P_b == DATA \o <<"/", "b">>
P_up == DATA \o <<"/", ".", ".">>
P_hidden == DATA \o <<"/", ".", ".", "h">>
P_etc == <<"e", "t", "c">>
P_blank == <<" ">>

\* caller-supplied path strings: the allowed root, two entries below it, the
\* root's parent written with a trailing '..', an entry whose name begins
\* with '..', a sibling of the root, and a blank string
UserPaths == {P_root, P_a, P_b, P_up, P_hidden, P_etc, P_blank}

\* paths of a move_file request: the allowed root, two entries below it and
\* two paths the validator refuses
MovePaths == {P_root, P_a, P_b, P_hidden, P_etc}

\* paths of a read_multiple_files request
BatchPaths == {P_a, P_b, P_etc}

\* contents written by write_file
WriteContents == {<<"a", "b">>}

\* edit lists of an edit_file request of the server model
ServerEditLists ==
    { <<Edit(<<"a">>, <<"b">>)>>,
      <<Edit(<<"a">>, <<"b">>), Edit(<<"b">>, <<"b">>)>> }

\* glob patterns of a search_files request
Patterns == { <<"*">>, <<".", ".", "/", "*">> }

\* longest list of paths of a read_multiple_files request with reads in flight
MaxBatch == 2

\* lists of paths of a read_multiple_files request of the server model
ServerBatchLists == { <<>>, <<P_a>>, <<P_b, P_a>>, <<P_a, P_etc, P_b>> }

\* the sequences over S of length at most n
SeqsUpTo(S, n) == UNION { [1..k -> S] : k \in 0..n }

RmfIdle == [pc |-> "idle", paths |-> <<>>, tasks |-> <<>>, order |-> <<>>]

\* the storage after initializeAllowedDirs
InitialFs ==
    LET dirs == UNION { SelfAndAncestors(d) : d \in ALLOWED_DIRS }
    IN  [p \in dirs |-> DirNode]

-----------------------------------------------------------------------------
(* tools.ts: the handlers                                                  *)

Others == <<rmf, ed, pv>>

\* 1. read_file
read_file(userPath) ==
    LET v == resolveAndValidatePath(userPath)
        r == readFile(fs, v.path)
    IN  /\ calls' = IF v.ok THEN {Call("readFile", v.path)} ELSE {}
        /\ result' = IF ~v.ok THEN Err("read_file", v.error)
                     ELSE IF ~r.ok THEN Err("read_file", r.code)
                     ELSE Resp("read_file", FALSE, "ok", r.content, <<>>, {})
        /\ UNCHANGED <<fs, Others>>

\* 3. write_file
write_file(userPath, content) ==
    LET v == resolveAndValidatePath(userPath)
        dirPath == dirname(v.path)
        m == mkdir(fs, dirPath)
        w == writeFile(m.fs, v.path, content)
    IN  IF ~v.ok
        THEN /\ calls' = {}
             /\ result' = Err("write_file", v.error)
             /\ UNCHANGED <<fs, Others>>
        ELSE IF ~m.ok
        THEN /\ calls' = {Call("mkdir", dirPath)}
             /\ result' = Err("write_file", m.code)
             /\ UNCHANGED <<fs, Others>>
        ELSE /\ calls' = {Call("mkdir", dirPath), Call("writeFile", v.path)}
             /\ result' = IF w.ok THEN Ok("write_file", "Successfully wrote")
                          ELSE Err("write_file", w.code)
             /\ fs' = w.fs
             /\ UNCHANGED Others

\* 4. edit_file, from the request to the response
edit_file(userPath, edits, dryRun) ==
    LET out == EditEnd(fs, EditRun(EditBegin(fs, userPath, edits, dryRun)))
    IN  /\ fs' = out.fs
        /\ calls' = out.calls
        /\ result' = out.result
        /\ UNCHANGED Others

\* the catch branch of create_directory for an 'Access denied': the parent of
\* the caller's string is validated, then the caller's path is resolved
\* without validation and created
CreateDirectoryRetry(f, userPath) ==
    LET parentUserPath == dirname(userPath)
        parentPath == IF parentUserPath = <<DOT>> THEN projectRoot ELSE parentUserPath
        pvd == resolveAndValidatePath(parentPath \o <<"/", "d", "u", "m", "m", "y">>)
        dirPath == resolve(projectRoot, userPath)
        m == mkdir(f, dirPath)
    IN  IF ~pvd.ok
        THEN [fs |-> f, calls |-> {},
              result |-> Err("create_directory", "Cannot create directories outside allowed paths")]
        ELSE [fs |-> m.fs, calls |-> {Call("mkdir", dirPath)},
              result |-> IF m.ok THEN Ok("create_directory", "ensured")
                         ELSE Err("create_directory", "Cannot create directories outside allowed paths")]

\* 5. create_directory
create_directory(userPath) ==
    LET v == resolveAndValidatePath(userPath)
        m == mkdir(fs, v.path)
        retry == CreateDirectoryRetry(fs, userPath)
    IN  IF v.ok
        THEN /\ fs' = m.fs
             /\ calls' = {Call("mkdir", v.path)}
             /\ result' = IF m.ok THEN Ok("create_directory", "ensured")
                          ELSE Err("create_directory", m.code)
             /\ UNCHANGED Others
        ELSE IF v.error = "Access denied"
        THEN /\ fs' = retry.fs
             /\ calls' = retry.calls
             /\ result' = retry.result
             /\ UNCHANGED Others
        ELSE /\ calls' = {}
             /\ result' = Err("create_directory", v.error)
             /\ UNCHANGED <<fs, Others>>

\* 6. list_directory
list_directory(userPath) ==
    LET v == resolveAndValidatePath(userPath)
        r == readdir(fs, v.path)
    IN  /\ calls' = IF v.ok THEN {Call("readdir", v.path)} ELSE {}
        /\ result' = IF ~v.ok THEN Err("list_directory", v.error)
                     ELSE IF ~r.ok THEN Err("list_directory", r.code)
                     ELSE Resp("list_directory", FALSE, "Contents", <<>>, <<>>, r.entries)
        /\ UNCHANGED <<fs, Others>>

\* the move without the check of the destination
MoveValidatedNoDestCheck(f, sourcePath, destPath) ==
    LET destDirPath == dirname(destPath)
        m == mkdir(f, destDirPath)
        r == rename(m.fs, sourcePath, destPath)
    IN  IF ~access(f, sourcePath).ok
        THEN [fs |-> f, calls |-> {Call("access", sourcePath)},
              result |-> Err("move_file", "does not exist or is not accessible")]
        ELSE IF ~m.ok
        THEN [fs |-> f,
              calls |-> {Call("access", sourcePath), Call("mkdir", destDirPath)},
              result |-> Err("move_file", m.code)]
        ELSE [fs |-> r.fs,
              calls |-> {Call("access", sourcePath), Call("mkdir", destDirPath),
                         Call("rename", sourcePath), Call("rename", destPath)},
              result |-> IF r.ok THEN Ok("move_file", "Successfully moved")
                         ELSE Err("move_file", r.code)]

\* the move after both paths are validated: the two existence checks, the
\* creation of the destination's parent, the rename
MoveValidated(f, sourcePath, destPath) ==
    LET destDirPath == dirname(destPath)
        m == mkdir(f, destDirPath)
        r == rename(m.fs, sourcePath, destPath)
    IN  IF ~access(f, sourcePath).ok
        THEN [fs |-> f, calls |-> {Call("access", sourcePath)},
              result |-> Err("move_file", "does not exist or is not accessible")]
        ELSE IF access(f, destPath).ok
        THEN [fs |-> f, calls |-> {Call("access", sourcePath), Call("access", destPath)},
              result |-> Err("move_file", "already exists. Cannot overwrite.")]
        ELSE IF ~m.ok
        THEN [fs |-> f,
              calls |-> {Call("access", sourcePath), Call("access", destPath),
                         Call("mkdir", destDirPath)},
              result |-> Err("move_file", m.code)]
        ELSE [fs |-> r.fs,
              calls |-> {Call("access", sourcePath), Call("access", destPath),
                         Call("mkdir", destDirPath), Call("rename", sourcePath),
                         Call("rename", destPath)},
              result |-> IF r.ok THEN Ok("move_file", "Successfully moved")
                         ELSE Err("move_file", r.code)]

\* 7. move_file
move_file(userSource, userDest) ==
    LET vs == validateSourcePath(userSource)
        vd == resolveAndValidatePath(userDest)
        out == MoveValidated(fs, vs.path, vd.path)
    IN  IF ~vs.ok \/ ~vd.ok
        THEN /\ calls' = {}
             /\ result' = Err("move_file", IF ~vs.ok THEN vs.error ELSE vd.error)
             /\ UNCHANGED <<fs, Others>>
        ELSE /\ fs' = out.fs
             /\ calls' = out.calls
             /\ result' = out.result
             /\ UNCHANGED Others

\* glob(pattern, { cwd }): the directory the pattern's last segment is matched
\* in, the pattern's directory part resolved against cwd
GlobDir(cwd, pattern) ==
    IF dirname(pattern) = <<DOT>> THEN cwd ELSE resolve(cwd, dirname(pattern))

\* 8. search_files
search_files(userPath, pattern) ==
    LET v == resolveAndValidatePath(userPath)
        st == stat(fs, v.path)
        dir == GlobDir(v.path, pattern)
        r == readdir(fs, dir)
    IN  /\ calls' = IF ~v.ok THEN {}
                    ELSE IF ~st.ok \/ st.type # "dir" THEN {Call("stat", v.path)}
                    ELSE {Call("stat", v.path), Call("readdir", dir)}
        /\ result' = IF ~v.ok THEN Err("search_files", v.error)
                     ELSE IF ~st.ok THEN Err("search_files", "does not exist")
                     ELSE IF st.type # "dir" THEN Err("search_files", "is not a directory")
                     ELSE Resp("search_files", FALSE, "Search results", <<>>, <<>>, r.entries)
        /\ UNCHANGED <<fs, Others>>

\* 9. get_file_info
get_file_info(userPath) ==
    LET v == resolveAndValidatePath(userPath)
        st == stat(fs, v.path)
    IN  /\ calls' = IF v.ok THEN {Call("stat", v.path)} ELSE {}
        /\ result' = IF ~v.ok THEN Err("get_file_info", v.error)
                     ELSE IF ~st.ok THEN Err("get_file_info", st.code)
                     ELSE Ok("get_file_info", st.type)
        /\ UNCHANGED <<fs, Others>>

-----------------------------------------------------------------------------
(* tools.ts: read_multiple_files, its reads completing in any order        *)

\* the async mapper up to its first await: a path that fails validation
\* settles at once with its error, a valid path waits for its read
RmfTask(userPath) ==
    LET v == resolveAndValidatePath(userPath)
    IN  [settled |-> ~v.ok, filePath |-> v.path, success |-> FALSE,
         content |-> <<>>, error |-> v.error]

\* userPaths.map(async ...): every mapper runs to its first await
RmfBegin(userPaths) ==
    LET tasks == [i \in 1..Len(userPaths) |-> RmfTask(userPaths[i])]
    IN  [pc |-> "reading", paths |-> userPaths, tasks |-> tasks,
         order |-> SelectSeq([i \in 1..Len(userPaths) |-> i], LAMBDA i : tasks[i].settled)]

\* the storage calls the mappers issue
RmfCalls(r) ==
    { Call("readFile", r.tasks[i].filePath) :
        i \in { j \in 1..Len(r.tasks) : r.tasks[j].filePath # <<>> } }

\* the read of task i completes with what the storage holds
RmfSettle(f, r, i) ==
    LET rd == readFile(f, r.tasks[i].filePath)
    IN  [r EXCEPT !.tasks[i] = [settled |-> TRUE, filePath |-> @.filePath,
                                success |-> rd.ok, content |-> rd.content,
                                error |-> rd.code],
                  !.order = Append(@, i)]

\* every pending read completed against the same storage
RECURSIVE RmfSettleAll(_, _)
RmfSettleAll(f, r) ==
    IF \A i \in 1..Len(r.tasks) : r.tasks[i].settled THEN r
    ELSE RmfSettleAll(f, RmfSettle(f, r, CHOOSE i \in 1..Len(r.tasks) : ~r.tasks[i].settled))

\* the block of the output text for one settled task
RmfBlock(userPath, task) ==
    [path |-> userPath, success |-> task.success, content |-> task.content,
     error |-> task.error]

\* the blocks in the order in which the tasks settled
RmfOutputInCompletionOrder(r) ==
    [i \in 1..Len(r.paths) |-> RmfBlock(r.paths[r.order[i]], r.tasks[r.order[i]])]

\* results.map(...): Promise.allSettled keeps the order of its input
RmfOutput(r) == [i \in 1..Len(r.paths) |-> RmfBlock(r.paths[i], r.tasks[i])]

\* 2. read_multiple_files with no other request between its reads
read_multiple_files(userPaths) ==
    LET r == RmfSettleAll(fs, RmfBegin(userPaths))
    IN  /\ calls' = RmfCalls(r)
        /\ result' = Resp("read_multiple_files", FALSE, "ok", <<>>, RmfOutput(r), {})
        /\ UNCHANGED <<fs, Others>>

\* 2. read_multiple_files, step by step: the request arrives
RmfStart(userPaths) ==
    /\ rmf.pc = "idle"
    /\ rmf' = RmfBegin(userPaths)
    /\ calls' = RmfCalls(rmf')
    /\ UNCHANGED <<fs, result, ed, pv>>

\* one pending read completes, with what the storage holds at that moment
RmfComplete(i) ==
    /\ rmf.pc = "reading"
    /\ i \in 1..Len(rmf.tasks)
    /\ ~rmf.tasks[i].settled
    /\ rmf' = RmfSettle(fs, rmf, i)
    /\ calls' = {}
    /\ UNCHANGED <<fs, result, ed, pv>>

\* every promise has settled: the output text is built and returned
RmfFinish ==
    /\ rmf.pc = "reading"
    /\ \A i \in 1..Len(rmf.tasks) : rmf.tasks[i].settled
    /\ result' = Resp("read_multiple_files", FALSE, "ok", <<>>, RmfOutput(rmf), {})
    /\ rmf' = [rmf EXCEPT !.pc = "idle"]
    /\ calls' = {}
    /\ UNCHANGED <<fs, ed, pv>>

-----------------------------------------------------------------------------
(* The server: one request at a time, each handled to its response         *)

PvIdle == [pc |-> "idle", userPath |-> <<>>, out |-> [ok |-> FALSE, error |-> "none", path |-> <<>>]]

Init ==
    /\ fs = InitialFs
    /\ calls = {}
    /\ result = NoResult
    /\ rmf = RmfIdle
    /\ ed = EditIdle
    /\ pv = PvIdle

Next ==
    \/ \E p \in UserPaths : read_file(p)
    \/ \E ps \in ServerBatchLists : read_multiple_files(ps)
    \/ \E p \in UserPaths, c \in WriteContents : write_file(p, c)
    \/ \E p \in UserPaths, es \in ServerEditLists, d \in BOOLEAN : edit_file(p, es, d)
    \/ \E p \in UserPaths : create_directory(p)
    \/ \E p \in UserPaths : list_directory(p)
    \/ \E s \in MovePaths, d \in MovePaths : move_file(s, d)
    \/ \E p \in UserPaths, g \in Patterns : search_files(p, g)
    \/ \E p \in UserPaths : get_file_info(p)

Spec == Init /\ [][Next]_vars

-----------------------------------------------------------------------------
(* read_multiple_files with its reads in flight, while other requests      *)
(* write and move the files it reads                                       *)

ReadNext ==
    \/ \E ps \in SeqsUpTo(BatchPaths, MaxBatch) : RmfStart(ps)
    \/ \E i \in 1..MaxBatch : RmfComplete(i)
    \/ RmfFinish
    \/ \E p \in {P_a, P_b}, c \in WriteContents : write_file(p, c)
    \/ move_file(P_a, P_b)

ReadSpec == Init /\ [][ReadNext]_vars

-----------------------------------------------------------------------------
(* The validator alone, over a bounded set of path strings                 *)

\* path segments the strings are built from: empty, '.', '..', the allowed
\* directory's name, a name beginning with '..', other names
PathSegments ==
    { <<>>, <<DOT>>, <<DOT, DOT>>, DATA, <<DOT, DOT, "h">>, <<"x">>,
      <<"h", "o", "m", "e">>, <<"p", "r", "o", "j", "e", "c", "t">>, <<" ">> }

\* most segments of a path string
MaxSegs == 3

PathInputs == { Join(g) : g \in SeqsUpTo(PathSegments, MaxSegs) }

PathInit ==
    /\ fs = InitialFs
    /\ calls = {}
    /\ result = NoResult
    /\ rmf = RmfIdle
    /\ ed = EditIdle
    /\ pv \in { [PvIdle EXCEPT !.pc = "called", !.userPath = p] : p \in PathInputs }

\* the call returns or throws
Validate ==
    /\ pv.pc = "called"
    /\ pv' = [pv EXCEPT !.pc = "returned", !.out = resolveAndValidatePath(pv.userPath)]
    /\ UNCHANGED <<fs, calls, result, rmf, ed>>

PathNext == Validate

PathSpec == PathInit /\ [][PathNext]_vars

-----------------------------------------------------------------------------
(* edit_file step by step, over bounded contents and edit lists            *)

Alphabet == {"a", "b"}

\* longest content of the edited file
MaxLen == 2

\* most edits of a request
MaxEdits == 2

FOO == <<"f", "o", "o">>
FOO_BAR_FOO == <<"f", "o", "o", " ", "b", "a", "r", " ", "f", "o", "o">>

\* contents of the edited file: every string over the alphabet up to MaxLen,
\* and the two contents of the documented examples
Contents == SeqsUpTo(Alphabet, MaxLen) \cup {FOO, FOO_BAR_FOO}

\* search and replacement texts
Texts == {<<>>, <<"a">>, <<"b">>}

\* edit lists: every list of at most MaxEdits edits over Texts, and the two
\* lists of the documented examples
EditLists ==
    SeqsUpTo({ Edit(o, n) : o \in Texts, n \in Texts }, MaxEdits)
    \cup { <<Edit(FOO, <<"b", "a", "z">>)>>,
           <<Edit(FOO, <<"q", "u", "x">>), Edit(FOO, <<"z", "z", "z">>)>> }

\* paths of the edit requests: a file, a directory, a path outside
EditPaths == {P_a, P_root, P_etc}

F_a == resolve(projectRoot, P_a)
F_b == resolve(projectRoot, P_b)

\* the storage before the request: the edited file and one other file
EditFs(c) ==
    [p \in DOMAIN InitialFs \cup {F_a, F_b} |->
        IF p = F_a THEN FileNode(c)
        ELSE IF p = F_b THEN FileNode(<<"b">>)
        ELSE DirNode]

EditInit ==
    /\ fs \in { EditFs(c) : c \in Contents }
    /\ calls = {}
    /\ result = NoResult
    /\ rmf = RmfIdle
    /\ ed = EditIdle
    /\ pv = PvIdle

\* the request arrives: validation and the read of the file
EditStart(userPath, edits, dryRun) ==
    /\ ed.pc = "idle"
    /\ ed' = EditBegin(fs, userPath, edits, dryRun)
    /\ calls' = IF ed'.filePath = <<>> THEN {} ELSE {Call("readFile", ed'.filePath)}
    /\ UNCHANGED <<fs, result, rmf, pv>>

\* one iteration of the loop over the edits
EditIterate ==
    /\ ed.pc = "loop"
    /\ ed.i < Len(ed.edits)
    /\ ed' = EditIter(ed)
    /\ calls' = {}
    /\ UNCHANGED <<fs, result, rmf, pv>>

\* the loop is over (or the request failed before it): write and respond
EditFinish ==
    /\ ed.pc \in {"loop", "failed"}
    /\ ed.i = Len(ed.edits)
    /\ LET out == EditEnd(fs, ed)
       IN  /\ fs' = out.fs
           /\ result' = out.result
           /\ calls' = out.calls \ {Call("readFile", ed.filePath)}
    /\ ed' = [ed EXCEPT !.pc = "done"]
    /\ UNCHANGED <<rmf, pv>>

EditNext ==
    \/ \E p \in EditPaths, es \in EditLists, d \in BOOLEAN : EditStart(p, es, d)
    \/ EditIterate
    \/ EditFinish

EditSpec == EditInit /\ [][EditNext]_vars

-----------------------------------------------------------------------------
(* Properties                                                              *)

\* C1: every storage call a handler issues targets a path that is an allowed
\* directory or lies below one
C1_StorageCallsInsideAllowedDirs ==
    \A c \in calls : LexicallyInside(c.path)

\* C2: for a non-blank path string the validator succeeds exactly when the
\* lexical resolution of the string against the project root is an allowed
\* directory or a descendant of one, and fails with 'Access denied' otherwise
C2_ValidatesIffLexicallyInside ==
    (pv.pc = "returned" /\ ~IsBlank(pv.userPath)) =>
        /\ pv.out.ok <=> LexicallyInside(resolve(projectRoot, pv.userPath))
        /\ ~pv.out.ok => pv.out.error = "Access denied"

\* the step is one iteration of the edit loop
IterStep == ed.pc = "loop" /\ ed'.pc = "loop" /\ ed'.i = ed.i + 1

\* the edit the iteration processes
ThisEdit == ed.edits[ed.i + 1]

\* the iteration reports exactly one outcome, of the given kind
Reported(kind) ==
    /\ Len(ed'.appliedEditsInfo) = Len(ed.appliedEditsInfo) + 1
    /\ ed'.appliedEditsInfo[Len(ed'.appliedEditsInfo)].kind = kind

\* C3: an edit whose search text is non-empty and occurs in the content
\* current when the edit is processed has all its occurrences replaced and is
\* reported as applied ('Replaced all occurrences'), the first edit included
C3_PresentEditIsApplied ==
    [][(IterStep /\ ThisEdit.oldText # <<>>
          /\ Includes(ed.modifiedContent, ThisEdit.oldText)) =>
         (/\ ed'.modifiedContent =
               ReplaceAll(ed.modifiedContent, ThisEdit.oldText, ThisEdit.newText)
          /\ Reported("Replaced"))]_vars

\* C4: a request that is not a dry run writes the file, with the content
\* after all edits, exactly when that content differs from the content read;
\* the changed flag says whether it differs
C4_WrittenIffContentDiffers ==
    (ed.pc = "done" /\ ed.error = "none" /\ ~ed.dryRun) =>
        /\ ed.changesMade <=> (ed.modifiedContent # ed.currentContent)
        /\ (Call("writeFile", ed.filePath) \in calls)
              <=> (ed.modifiedContent # ed.currentContent)
        /\ fs[ed.filePath].content = ed.modifiedContent

\* C5: an edit is reported as superseded ('was present initially but removed
\* by prior edits') exactly when its search text occurs in the original
\* content and not in the content current when the edit is processed
C5_SupersededIffRemovedByPriorEdit ==
    [][IterStep =>
         (Reported("Note") <=>
            (/\ Includes(ed.currentContent, ThisEdit.oldText)
             /\ ~Includes(ed.modifiedContent, ThisEdit.oldText)))]_vars

\* C6: an edit whose search text does not occur in the original content is
\* reported as not found ('Skipped: ... not found'), whatever the earlier
\* edits did to the content
C6_AbsentFromOriginalIsNotFound ==
    [][(IterStep /\ ~Includes(ed.currentContent, ThisEdit.oldText)) =>
         Reported("Skipped")]_vars

\* C7: a dry run writes nothing: after the response the edited file and
\* every other entry of the storage are as they were before the request
C7_DryRunLeavesStorageUnchanged ==
    (ed.pc = "done" /\ ed.dryRun) =>
        /\ fs = EditFs(ed.currentContent)
        /\ Call("writeFile", ed.filePath) \notin calls

\* a dry run has answered although its edits changed the content
C7_Witness ==
    /\ ed.pc = "done"
    /\ ed.dryRun
    /\ ed.changesMade
    /\ ed.modifiedContent # ed.currentContent
    /\ result.msg = "Dry run: changes would be applied"

\* the validator's answer for every path a move request may name
MoveValidation == [p \in MovePaths |-> resolveAndValidatePath(p)]

\* the request names two validated paths that both exist
MoveOntoExisting(s, d) ==
    /\ MoveValidation[s].ok
    /\ MoveValidation[d].ok
    /\ MoveValidation[s].path \in DOMAIN fs
    /\ MoveValidation[d].path \in DOMAIN fs

\* C8: move_file with an existing source and an existing destination answers
\* with the 'already exists. Cannot overwrite.' error and leaves the storage
\* as it was
C8_MoveOntoExistingFailsUnchanged ==
    [][\A s \in MovePaths, d \in MovePaths :
         (/\ result'.op = "move_file"
          /\ MoveOntoExisting(s, d)
          /\ Call("access", MoveValidation[s].path) \in calls'
          /\ move_file(s, d)) =>
            (/\ fs' = fs
             /\ result' = Err("move_file", "already exists. Cannot overwrite."))]_vars

\* a move onto an existing file was refused while both files exist
C8_Witness ==
    /\ result = Err("move_file", "already exists. Cannot overwrite.")
    /\ IsFile(fs, F_a)
    /\ IsFile(fs, F_b)
    /\ calls = {Call("access", F_a), Call("access", F_b)}

\* C9: the response of read_multiple_files holds one block per requested
\* path, in the order of the request, each block carrying the outcome of its
\* own path: the validation error, the read error, or the content read
C9_OneBlockPerPathInInputOrder ==
    (rmf.pc = "idle" /\ result.op = "read_multiple_files") =>
        /\ Len(result.blocks) = Len(rmf.paths)
        /\ \A i \in 1..Len(rmf.paths) :
              LET b == result.blocks[i]
                  v == resolveAndValidatePath(rmf.paths[i])
              IN  /\ b.path = rmf.paths[i]
                  /\ b.success = rmf.tasks[i].success
                  /\ b.content = rmf.tasks[i].content
                  /\ b.error = rmf.tasks[i].error
                  /\ ~v.ok => (~b.success /\ b.error = v.error)
                  /\ b.success => v.ok

\* a request of two paths answered after its second read completed first,
\* with one content block and one error block
C9_Witness ==
    /\ rmf.pc = "idle"
    /\ result.op = "read_multiple_files"
    /\ rmf.order = <<2, 1>>
    /\ rmf.paths[1] # rmf.paths[2]
    /\ \E i \in 1..2 : result.blocks[i].success /\ ~result.blocks[3 - i].success

\* C10: an edit whose search text equals its replacement text leaves the
\* changed flag as it was
C10_IdentityEditKeepsChangedFlag ==
    [][(IterStep /\ ThisEdit.oldText = ThisEdit.newText) =>
         ed'.changesMade = ed.changesMade]_vars

\* C11: an edit whose search text is the empty string is treated as not
\* found: it is reported 'Skipped: ... not found' and the content current
\* when it is processed is left as it is, whatever the replacement text
C11_EmptySearchTextIsNotFound ==
    [][(IterStep /\ ThisEdit.oldText = <<>>) =>
         (/\ Reported("Skipped")
          /\ ed'.modifiedContent = ed.modifiedContent)]_vars

\* C12: once the loop has processed the edit list, appliedEditsInfo holds
\* exactly one outcome for each edit of the request, in the order of the edits
C12_OneOutcomePerEditInOrder ==
    (ed.pc \in {"loop", "done"} /\ ed.error = "none" /\ ed.i = Len(ed.edits)) =>
        /\ Len(ed.appliedEditsInfo) = Len(ed.edits)
        /\ \A i \in 1..Len(ed.appliedEditsInfo) :
              i <= Len(ed.edits) => ed.appliedEditsInfo[i].oldText = ed.edits[i].oldText

====
